---- MODULE Spec2Model ----
(***************************************************************************)
(* Model of extract_fields_to_csv.py: the field mapper                     *)
(* (build_csv_row_from_fields), the object-storage CSV append sink         *)
(* (append_csv_row_to_s3) and the upload-triggered driver (lambda_handler).*)
(*                                                                         *)
(* Text is modelled as TLA+ strings; str.strip, str.lower, substring       *)
(* search, str.rstrip and the csv writer are computed character by         *)
(* character.                                                              *)
(***************************************************************************)
EXTENDS Integers, Sequences, FiniteSets, TLC

VARIABLES
    dest_exists,    \* does s3://OUTPUT_BUCKET/OUTPUT_CSV_KEY exist
    object,         \* its content (meaningful when dest_exists)
    pc,             \* pc[i]: position of invocation i of lambda_handler
    fields,         \* fields[i]: what extract_form_fields_from_bytes returned
    csv_row,        \* csv_row[i]: the record built by build_csv_row_from_fields
    existing_csv,   \* existing_csv[i]: local variable of append_csv_row_to_s3
    read_outcome,   \* read_outcome[i]: how the get_object of the destination ended
    result,         \* result[i]: what the invocation returned, or that it raised
    uploaded,       \* uploaded[i]: new_csv, the Body of i's put_object
    puts,           \* puts[i]: number of completed put_object calls on the destination
    gets,           \* gets[i]: number of get_object calls on the destination
    calls,          \* invocations whose append returned normally, in order
    lost,           \* lost[i]: who wrote the destination between i's read and i's write
    initial,        \* the destination before the first invocation
    in_fields,      \* mapper under test: its argument
    output_data,    \* mapper under test: the record it returned
    built           \* mapper under test: has it been called

vars == <<dest_exists, object, pc, fields, csv_row, existing_csv, read_outcome,
          result, uploaded, puts, gets, calls, lost, initial, in_fields,
          output_data, built>>

storage_vars == <<dest_exists, object, pc, fields, csv_row, existing_csv,
                  read_outcome, result, uploaded, puts, gets, calls, lost,
                  initial>>

mapper_vars == <<in_fields, output_data, built>>

-----------------------------------------------------------------------------
(* Bounds *)

MaxFields == 3
MaxInvocations == 2

-----------------------------------------------------------------------------
(* Python text primitives *)

Min(S) == CHOOSE x \in S : \A y \in S : x <= y
Max(S) == CHOOSE x \in S : \A y \in S : x >= y

Char(s, i) == SubSeq(s, i, i)

Whitespace == {" ", "\t", "\n", "\r"}

UpperCase == "ABCDEFGHIJKLMNOPQRSTUVWXYZ"
LowerCase == "abcdefghijklmnopqrstuvwxyz"

lower_char(c) ==
    LET hit == {k \in 1..Len(UpperCase) : Char(UpperCase, k) = c}
    IN  IF hit = {} THEN c ELSE Char(LowerCase, Min(hit))

RECURSIVE lower(_)
lower(s) ==
    IF s = "" THEN "" ELSE lower_char(Char(s, 1)) \o lower(SubSeq(s, 2, Len(s)))

strip(s) ==
    LET keep == {k \in 1..Len(s) : Char(s, k) \notin Whitespace}
    IN  IF keep = {} THEN "" ELSE SubSeq(s, Min(keep), Max(keep))

rstrip_newline(s) ==
    LET keep == {k \in 1..Len(s) : Char(s, k) # "\n"}
    IN  IF keep = {} THEN "" ELSE SubSeq(s, 1, Max(keep))

contains(sub, s) ==
    \E k \in 1..(Len(s) - Len(sub) + 1) : SubSeq(s, k, k + Len(sub) - 1) = sub

IsPrefix(p, s) == Len(p) <= Len(s) /\ SubSeq(s, 1, Len(p)) = p

RECURSIVE join(_, _)
join(sep, parts) ==
    IF parts = <<>> THEN ""
    ELSE IF Len(parts) = 1 THEN parts[1]
    ELSE parts[1] \o sep \o join(sep, Tail(parts))

-----------------------------------------------------------------------------
(* Form fields as PyPDF2 returns them: an ordered dict, field name -> field *)
(* dictionary, whose "/V" entry may be missing, None or a text.             *)

NoV == [tag |-> "absent", s |-> ""]
None == [tag |-> "none", s |-> ""]
Text(s) == [tag |-> "str", s |-> s]

\* field_info.get("/V")
get_V(info) == IF info.tag = "absent" THEN None ELSE info

\* field_info.get("/V", "")
get_V_or_empty(info) == IF info.tag = "absent" THEN Text("") ELSE info

\* if value:
truthy(value) == value.tag = "str" /\ value.s # ""

\* str(value)
str(value) == IF value.tag = "str" THEN value.s ELSE "None"

Field(name, info) == [name |-> name, info |-> info]

\* fields.get(key, {})
get_field(flds, key) ==
    LET hit == {k \in 1..Len(flds) : flds[k].name = key}
    IN  IF hit = {} THEN NoV ELSE flds[Min(hit)].info

-----------------------------------------------------------------------------
(* The field sets the mapper is exercised on: every ordered dict of at most *)
(* MaxFields fields with distinct names, names and values taken from one of *)
(* the families below (one per group of columns, and a mixed one).          *)

NameFields ==
    [names |-> {"Last Name", "Last Name_2", "First and middle names",
                " first and middle names_3 ", "undefined_2"},
     infos |-> {NoV, None, Text(""), Text("Smith"), Text(" Jane ")}]

AddressFields ==
    [names |-> {"Unit #", "Street number and street name1", "City1",
                "Province1", "Postalcode1"},
     infos |-> {NoV, Text(""), Text(" "), Text("4"), Text("12 Main St"),
                Text("Springfield")}]

DateInfos == {NoV, None, Text(""), Text("15"), Text("June"), Text("2024")}

StartDateFields ==
    [names |-> {"This tenancy created by this agreement starts on", "month1",
                "year1", "This tenancy created by this agreement ends on"},
     infos |-> DateInfos]

EndDateFields ==
    [names |-> {"This tenancy created by this agreement ends on", "month2",
                "year2", "year1"},
     infos |-> DateInfos]

MixedFields ==
    [names |-> {"The tenant will pay the rent of", "Signature", "Date",
                "Last Name_4", "City1", "Month1"},
     infos |-> {NoV, None, Text(" 1500 "), Text("x")}]

Families ==
    {NameFields, AddressFields, StartDateFields, EndDateFields, MixedFields}

FieldSetsOf(fam) ==
    LET F == {Field(n, v) : n \in fam.names, v \in fam.infos}
    IN  {flds \in UNION {[1..n -> F] : n \in 0..MaxFields} :
            \A j, k \in 1..Len(flds) : flds[j].name = flds[k].name => j = k}

FieldSets == UNION {FieldSetsOf(fam) : fam \in Families}

FieldNames == UNION {fam.names : fam \in Families}

-----------------------------------------------------------------------------
(* build_csv_row_from_fields *)

headers ==
    << "Landlord 1 First Name", "Landlord 1 Last Name",
       "Landlord 2 First Name", "Landlord 2 Last Name",
       "Tenant 1 First Name", "Tenant 1 Last Name",
       "Tenant 2 First Name", "Tenant 2 Last Name",
       "Phone Number", "Address", "Lease Start Date", "Lease Expiry Date",
       "Monthly Rent" >>

HeaderSet == {headers[k] : k \in 1..Len(headers)}

\* {key: "" for key in headers}
empty_output == [h \in HeaderSet |-> ""]

\* the dict literal, in insertion order
mapping ==
    << <<"last name", "Landlord 1 Last Name">>,
       <<"first and middle names", "Landlord 1 First Name">>,
       <<"last name_2", "Landlord 2 Last Name">>,
       <<"first and middle names_2", "Landlord 2 First Name">>,
       <<"last name_3", "Tenant 1 Last Name">>,
       <<"first and middle names_3", "Tenant 1 First Name">>,
       <<"last name_4", "Tenant 2 Last Name">>,
       <<"first and middle names_4", "Tenant 2 First Name">>,
       <<"undefined_2", "Phone Number">> >>

\* the inner loop: the first pdf_key of mapping contained in key_lower, then
\* break; 0 when no key is contained
first_mapping_hit(key_lower) ==
    LET hit == {k \in 1..Len(mapping) : contains(mapping[k][1], key_lower)}
    IN  IF hit = {} THEN 0 ELSE Min(hit)

\* key_lower = field_name.strip().lower(), then the inner loop; computed once
\* per field name
mapping_hit_of == [n \in FieldNames |-> first_mapping_hit(lower(strip(n)))]

\* one iteration of the outer loop over fields.items()
map_one_field(out, f) ==
    LET m == mapping_hit_of[f.name]
        value == get_V(f.info)
    IN  IF m # 0 /\ truthy(value)
        THEN [out EXCEPT ![mapping[m][2]] = strip(str(value))]
        ELSE out

RECURSIVE map_simple_fields(_, _)
map_simple_fields(flds, out) ==
    IF flds = <<>> THEN out
    ELSE map_simple_fields(Tail(flds), map_one_field(out, Head(flds)))

\* "for field_name in fields.keys(): if <sub> in field_name.lower(): ... break"
\* the index of the first field whose lowercased name contains sub, 0 if none
start_day_key == "this tenancy created by this agreement starts on"
end_day_key == "this tenancy created by this agreement ends on"
rent_field_substring == "the tenant will pay the rent of"

address_names ==
    <<"unit #", "street number and street name1", "City1", "Province1",
      "Postalcode1">>

SearchKeys ==
    {start_day_key, end_day_key, rent_field_substring}
        \cup {lower(address_names[k]) : k \in 1..Len(address_names)}

\* "<sub> in field_name.lower()"; computed once per field name
name_contains(sub, name) == contains(sub, lower(name))

subs_in_name == [n \in FieldNames |-> {sub \in SearchKeys : name_contains(sub, n)}]

first_field_containing(flds, sub) ==
    LET hit == {k \in 1..Len(flds) : sub \in subs_in_name[flds[k].name]}
    IN  IF hit = {} THEN 0 ELSE Min(hit)

\* the value such a loop leaves behind: the stripped text of the first
\* matching field when it is truthy, otherwise nothing (<<>>)
first_match_value(flds, sub) ==
    LET k == first_field_containing(flds, sub)
    IN  IF k # 0 /\ truthy(get_V(flds[k].info))
        THEN <<strip(str(get_V(flds[k].info)))>>
        ELSE <<>>

RECURSIVE address_parts(_, _)
address_parts(flds, names) ==
    IF names = <<>> THEN <<>>
    ELSE first_match_value(flds, lower(Head(names)))
            \o address_parts(flds, Tail(names))

build_address(flds, out) ==
    LET parts == address_parts(flds, address_names)
    IN  IF parts # <<>> THEN [out EXCEPT !["Address"] = join(", ", parts)]
        ELSE out

\* lines 67-78 and 80-91: the same code with different keys
build_date(flds, day_key, month_key, year_key, column, out) ==
    LET d == first_match_value(flds, day_key)
        day == IF d = <<>> THEN "" ELSE d[1]
        month == strip(str(get_V_or_empty(get_field(flds, month_key))))
        year == strip(str(get_V_or_empty(get_field(flds, year_key))))
    IN  IF day # "" \/ month # "" \/ year # ""
        THEN [out EXCEPT ![column] = strip(day \o " " \o month \o " " \o year)]
        ELSE out

build_rent(flds, out) ==
    LET r == first_match_value(flds, rent_field_substring)
    IN  IF r # <<>> THEN [out EXCEPT !["Monthly Rent"] = r[1]] ELSE out

build_csv_row_from_fields(flds) ==
    build_rent(flds,
      build_date(flds, end_day_key, "month2", "year2", "Lease Expiry Date",
        build_date(flds, start_day_key, "month1", "year1", "Lease Start Date",
          build_address(flds,
            map_simple_fields(flds, empty_output)))))

-----------------------------------------------------------------------------
(* csv.DictWriter on an io.StringIO: excel dialect, QUOTE_MINIMAL, "\r\n" *)

lineterminator == "\r\n"

needs_quotes(field) ==
    \E k \in 1..Len(field) : Char(field, k) \in {",", "\"", "\r", "\n"}

RECURSIVE double_quotes(_)
double_quotes(field) ==
    IF field = "" THEN ""
    ELSE (IF Char(field, 1) = "\"" THEN "\"\"" ELSE Char(field, 1))
            \o double_quotes(SubSeq(field, 2, Len(field)))

quote_field(field) ==
    IF needs_quotes(field) THEN "\"" \o double_quotes(field) \o "\"" ELSE field

\* writer.writeheader()
header_line == join(",", [k \in 1..Len(headers) |-> quote_field(headers[k])])
                  \o lineterminator

\* writer.writerow(row)
row_line(row) ==
    join(",", [k \in 1..Len(headers) |-> quote_field(row[headers[k]])])
        \o lineterminator

\* lines 124-132: the content append_csv_row_to_s3 uploads
new_csv(existing, row) ==
    IF existing = ""
    THEN header_line \o row_line(row)
    ELSE rstrip_newline(existing) \o "\n" \o row_line(row)

-----------------------------------------------------------------------------
(* lambda_handler, one invocation per uploaded document; the storage calls  *)
(* are its atomic steps.                                                    *)

Invocations == 1..MaxInvocations

\* what extract_form_fields_from_bytes can return: None (no form), an empty
\* dict, or a dict of fields
NoForm == [is_none |-> TRUE, items |-> <<>>]
Form(items) == [is_none |-> FALSE, items |-> items]

Documents ==
    { NoForm,
      Form(<<>>),
      Form(<< Field("Last Name", Text("Smith")),
              Field("First and middle names", Text("Jane")),
              Field("Unit #", Text("4")),
              Field("Street number and street name1", Text("12 Main St")) >>),
      Form(<< Field("Last Name", Text("Lee")) >>) }

\* the destination object before any invocation: missing, or any of these
InitialContents == {"", "\n", "a,b", "a,b\n", "a,b\n\n", "a,b\r\n"}

NoResult == [raised |-> FALSE, statusCode |-> 0, body |-> ""]
Raised == [raised |-> TRUE, statusCode |-> 0, body |-> ""]
Returned(code, body) == [raised |-> FALSE, statusCode |-> code, body |-> body]

Init ==
    /\ \/ dest_exists = FALSE /\ object = ""
       \/ dest_exists = TRUE /\ object \in InitialContents
    /\ initial = [exists |-> dest_exists, content |-> object]
    /\ pc = [i \in Invocations |-> "start"]
    /\ fields = [i \in Invocations |-> NoForm]
    /\ csv_row = [i \in Invocations |-> empty_output]
    /\ existing_csv = [i \in Invocations |-> ""]
    /\ read_outcome = [i \in Invocations |-> "none"]
    /\ result = [i \in Invocations |-> NoResult]
    /\ uploaded = [i \in Invocations |-> ""]
    /\ puts = [i \in Invocations |-> 0]
    /\ gets = [i \in Invocations |-> 0]
    /\ calls = <<>>
    /\ lost = [i \in Invocations |-> {}]
    /\ in_fields = <<>>
    /\ output_data = empty_output
    /\ built = FALSE

\* a handler that tests "if fields is None:" instead
no_fields_none_only(f) == f.is_none

\* "if not fields:"
no_fields(f) == f.is_none \/ f.items = <<>>

\* lines 143-159: download the PDF, extract the fields, return 400 when there
\* are none, otherwise build the row
Extract(i) ==
    /\ pc[i] = "start"
    /\ \E d \in Documents :
        /\ fields' = [fields EXCEPT ![i] = d]
        /\ IF no_fields(d)
           THEN /\ result' = [result EXCEPT ![i] =
                        Returned(400, "No form fields found in the PDF.")]
                /\ pc' = [pc EXCEPT ![i] = "done"]
                /\ UNCHANGED csv_row
           ELSE /\ csv_row' = [csv_row EXCEPT ![i] =
                        build_csv_row_from_fields(d.items)]
                /\ pc' = [pc EXCEPT ![i] = "append"]
                /\ UNCHANGED result
    /\ UNCHANGED <<dest_exists, object, existing_csv, read_outcome, uploaded,
                   puts, gets, calls, lost, initial, mapper_vars>>

\* line 149 (or the PDF reader) raises: the invocation fails
ExtractFails(i) ==
    /\ pc[i] = "start"
    /\ result' = [result EXCEPT ![i] = Raised]
    /\ pc' = [pc EXCEPT ![i] = "failed"]
    /\ UNCHANGED <<dest_exists, object, fields, csv_row, existing_csv,
                   read_outcome, uploaded, puts, gets, calls, lost, initial,
                   mapper_vars>>

\* lines 115-117: the destination exists and is read
ReadExisting(i) ==
    /\ pc[i] = "append"
    /\ dest_exists
    /\ existing_csv' = [existing_csv EXCEPT ![i] = object]
    /\ read_outcome' = [read_outcome EXCEPT ![i] = "ok"]
    /\ gets' = [gets EXCEPT ![i] = @ + 1]
    /\ pc' = [pc EXCEPT ![i] = "write"]
    /\ UNCHANGED <<dest_exists, object, fields, csv_row, result, uploaded, puts,
                   calls, lost, initial, mapper_vars>>

\* lines 118-119: the destination does not exist
ReadNoSuchKey(i) ==
    /\ pc[i] = "append"
    /\ ~dest_exists
    /\ existing_csv' = [existing_csv EXCEPT ![i] = ""]
    /\ read_outcome' = [read_outcome EXCEPT ![i] = "not_found"]
    /\ gets' = [gets EXCEPT ![i] = @ + 1]
    /\ pc' = [pc EXCEPT ![i] = "write"]
    /\ UNCHANGED <<dest_exists, object, fields, csv_row, result, uploaded, puts,
                   calls, lost, initial, mapper_vars>>

\* what "except Exception" (lines 120-122) does with a failed read
after_read_error(i) ==
    /\ existing_csv' = [existing_csv EXCEPT ![i] = ""]
    /\ pc' = [pc EXCEPT ![i] = "write"]
    /\ UNCHANGED result

\* lines 120-122: get_object fails for another reason (access denied,
\* throttling, network), whether or not the destination exists
ReadFails(i) ==
    /\ pc[i] = "append"
    /\ read_outcome' = [read_outcome EXCEPT ![i] = "error"]
    /\ gets' = [gets EXCEPT ![i] = @ + 1]
    /\ after_read_error(i)
    /\ UNCHANGED <<dest_exists, object, fields, csv_row, uploaded, puts, calls,
                   lost, initial, mapper_vars>>

\* a sink that extends the object as it is at upload time (an atomic append)
content_at_upload(i) == IF dest_exists THEN object ELSE ""

\* the content the upload extends: the local existing_csv read earlier
content_to_extend(i) == existing_csv[i]

\* lines 124-135 and 164: build the new content, overwrite the object, return
WriteBack(i) ==
    /\ pc[i] = "write"
    /\ uploaded' = [uploaded EXCEPT ![i] = new_csv(content_to_extend(i), csv_row[i])]
    /\ object' = uploaded'[i]
    /\ dest_exists' = TRUE
    /\ puts' = [puts EXCEPT ![i] = @ + 1]
    /\ calls' = Append(calls, i)
    /\ lost' = [j \in Invocations |->
                    IF j # i /\ pc[j] = "write" THEN lost[j] \cup {i} ELSE lost[j]]
    /\ result' = [result EXCEPT ![i] =
                        Returned(200, "PDF processed and CSV updated.")]
    /\ pc' = [pc EXCEPT ![i] = "done"]
    /\ UNCHANGED <<fields, csv_row, existing_csv, read_outcome, gets, initial,
                   mapper_vars>>

\* line 134 raises: nothing is written, the invocation fails
WriteFails(i) ==
    /\ pc[i] = "write"
    /\ result' = [result EXCEPT ![i] = Raised]
    /\ pc' = [pc EXCEPT ![i] = "failed"]
    /\ UNCHANGED <<dest_exists, object, fields, csv_row, existing_csv,
                   read_outcome, uploaded, puts, gets, calls, lost, initial,
                   mapper_vars>>

Next ==
    \E i \in Invocations :
        \/ Extract(i)
        \/ ExtractFails(i)
        \/ ReadExisting(i)
        \/ ReadNoSuchKey(i)
        \/ ReadFails(i)
        \/ WriteBack(i)
        \/ WriteFails(i)

Spec == Init /\ [][Next]_vars

-----------------------------------------------------------------------------
(* Specification of the mapper alone *)

NoInvocation == [i \in {} |-> 0]

MapperInit ==
    /\ in_fields \in FieldSets
    /\ output_data = empty_output
    /\ built = FALSE
    /\ dest_exists = FALSE
    /\ object = ""
    /\ pc = NoInvocation
    /\ fields = NoInvocation
    /\ csv_row = NoInvocation
    /\ existing_csv = NoInvocation
    /\ read_outcome = NoInvocation
    /\ result = NoInvocation
    /\ uploaded = NoInvocation
    /\ puts = NoInvocation
    /\ gets = NoInvocation
    /\ calls = <<>>
    /\ lost = NoInvocation
    /\ initial = [exists |-> FALSE, content |-> ""]

\* csv_row = build_csv_row_from_fields(fields)
Build ==
    /\ ~built
    /\ output_data' = build_csv_row_from_fields(in_fields)
    /\ built' = TRUE
    /\ UNCHANGED <<in_fields, storage_vars>>

MapperNext == Build

MapperSpec == MapperInit /\ [][MapperNext]_vars

-----------------------------------------------------------------------------
(* Properties of the mapper *)

\* the mapping-table keys contained in a lowercased field name
keys_in_name ==
    [n \in FieldNames |->
        {m \in 1..Len(mapping) : contains(mapping[m][1], lower(n))}]

FieldIndexes == 1..Len(in_fields)

HasText(k) == truthy(get_V(in_fields[k].info))

TrimmedText(k) == strip(in_fields[k].info.s)

\* C3: for each (sourceKey, destColumn) pair of the mapping table, a field
\* whose lowercased name equals or contains sourceKey and whose value is
\* non-empty puts its trimmed value in destColumn (stated for the field sets
\* in which only one field contains sourceKey, so that no tie is involved).
C3_EveryPairPopulatesItsColumn ==
    built =>
        \A m \in 1..Len(mapping) : \A k \in FieldIndexes :
            ( /\ m \in keys_in_name[in_fields[k].name]
              /\ HasText(k)
              /\ \A j \in FieldIndexes :
                    m \in keys_in_name[in_fields[j].name] => j = k )
            => output_data[mapping[m][2]] = TrimmedText(k)

\* C7: when several fields resolve to the same mapping-table key, the column
\* holds the value of the first of them in iteration order.
C7_FirstMatchingFieldWins ==
    built =>
        \A m \in 1..Len(mapping) :
            LET same == {k \in FieldIndexes : mapping_hit_of[in_fields[k].name] = m}
            IN  (Cardinality(same) >= 2 /\ TrimmedText(Min(same)) # "")
                    => output_data[mapping[m][2]] = TrimmedText(Min(same))

\* the text a field contributes as a part: its trimmed value, "" when the
\* field, its value or its text is missing
PartOf(info) == IF info.tag = "str" THEN strip(info.s) ELSE ""

FirstFieldPart(sub) ==
    LET k == first_field_containing(in_fields, sub)
    IN  IF k = 0 THEN "" ELSE PartOf(in_fields[k].info)

NonEmpty(parts) == SelectSeq(parts, LAMBDA x : x # "")

DateParts(day_key, month_key, year_key) ==
    << FirstFieldPart(day_key),
       PartOf(get_field(in_fields, month_key)),
       PartOf(get_field(in_fields, year_key)) >>

NoNullValue == \A k \in FieldIndexes : in_fields[k].info.tag # "none"

\* C6: each lease date is the non-empty parts among (day, month, year) joined
\* by exactly one space (stated for field sets without null values).
C6_DatePartsJoinedBySingleSpace ==
    (built /\ NoNullValue) =>
        /\ output_data["Lease Start Date"] =
              join(" ", NonEmpty(DateParts(start_day_key, "month1", "year1")))
        /\ output_data["Lease Expiry Date"] =
              join(" ", NonEmpty(DateParts(end_day_key, "month2", "year2")))

AddressPartsExpected ==
    [k \in 1..Len(address_names) |-> FirstFieldPart(lower(address_names[k]))]

\* C8: Address is the trimmed unit, street, city, province and postal-code
\* values in that order, joined by ", ", every empty or absent part skipped,
\* and empty when no part has a value.
C8_AddressSkipsEmptyParts ==
    built => output_data["Address"] = join(", ", NonEmpty(AddressPartsExpected))

\* the field names that feed a column
FeedsColumn(column, name) ==
    CASE column = "Address" ->
            \E k \in 1..Len(address_names) :
                lower(address_names[k]) \in subs_in_name[name]
      [] column = "Lease Start Date" ->
            start_day_key \in subs_in_name[name] \/ name \in {"month1", "year1"}
      [] column = "Lease Expiry Date" ->
            end_day_key \in subs_in_name[name] \/ name \in {"month2", "year2"}
      [] column = "Monthly Rent" -> rent_field_substring \in subs_in_name[name]
      [] OTHER ->
            /\ mapping_hit_of[name] # 0
            /\ mapping[mapping_hit_of[name]][2] = column

Feeds == [column \in HeaderSet, name \in FieldNames |-> FeedsColumn(column, name)]

\* C10: a column stays "" when every field feeding it is missing or has an
\* absent or null value; with no recognized key all 13 columns are "".
C10_MissingOrNullLeavesColumnEmpty ==
    built =>
        \A column \in HeaderSet :
            (\A k \in FieldIndexes :
                Feeds[column, in_fields[k].name]
                    => in_fields[k].info.tag \in {"absent", "none"})
            => output_data[column] = ""

-----------------------------------------------------------------------------
(* Properties of the append sink and of the handler *)

Last(seq) == seq[Len(seq)]

RECURSIVE RowLines(_)
RowLines(who) ==
    IF who = <<>> THEN "" ELSE row_line(csv_row[Head(who)]) \o RowLines(Tail(who))

\* C1: the content a successful append writes back has the content it read,
\* E, as a prefix, whatever E ends with.
C1_ExistingContentIsPrefix ==
    \A i \in Invocations :
        (puts[i] = 1 /\ read_outcome[i] = "ok")
            => IsPrefix(existing_csv[i], uploaded[i])

\* C2: a read of the destination that fails for another reason than "not
\* found" makes the call fail, and the destination is not written.
C2_ReadErrorPropagates ==
    \A i \in Invocations :
        (read_outcome[i] = "error" /\ pc[i] \in {"done", "failed"})
            => (result[i].raised /\ puts[i] = 0)

\* C4: starting from a missing destination, after non-overlapping appends
\* that returned normally the object is the header once, then one row per
\* call, in call order.
C4_HeaderOnceThenRowsInCallOrder ==
    ( /\ ~initial.exists
      /\ calls # <<>>
      /\ \A j \in Invocations : lost[j] = {} )
        => object = header_line \o RowLines(calls)

EmptyFieldSet(f) == f.is_none \/ Len(f.items) = 0

StorageSucceeded(i) == pc[i] = "done" /\ read_outcome[i] \in {"ok", "not_found"}

\* C5: an empty or absent field set gives 400 "no fields" without any read
\* or write of the destination; a non-empty one, when storage succeeds,
\* gives 200 after exactly one write.
C5_NoFieldsNoMutation ==
    \A i \in Invocations :
        /\ (pc[i] = "done" /\ EmptyFieldSet(fields[i]))
              => /\ result[i] = Returned(400, "No form fields found in the PDF.")
                 /\ gets[i] = 0
                 /\ puts[i] = 0
        /\ (StorageSucceeded(i) /\ ~EmptyFieldSet(fields[i]))
              => /\ result[i] = Returned(200, "PDF processed and CSV updated.")
                 /\ puts[i] = 1

C5_Witness ==
    \E i, j \in Invocations :
        /\ pc[i] = "done" /\ EmptyFieldSet(fields[i]) /\ result[i].statusCode = 400
        /\ StorageSucceeded(j) /\ ~EmptyFieldSet(fields[j])
        /\ result[j].statusCode = 200
        /\ object = uploaded[j]

\* i wrote the destination after j had read it and before j wrote it, and j
\* is the latest writer
Raced(i, j) ==
    /\ i # j
    /\ i \in lost[j]
    /\ puts[j] = 1
    /\ calls # <<>>
    /\ Last(calls) = j

\* C9: when two appends overlap (both read before either writes), both
\* return 200 and the object is the later writer's stale content plus its
\* row: from a missing destination, the header and the later writer's row
\* only.
C9_RacingAppendsLoseTheEarlierRow ==
    \A i, j \in Invocations :
        Raced(i, j) =>
            /\ result[i] = Returned(200, "PDF processed and CSV updated.")
            /\ result[j] = Returned(200, "PDF processed and CSV updated.")
            /\ object = new_csv(existing_csv[j], csv_row[j])
            /\ (~initial.exists /\ Len(calls) = 2)
                  => object = header_line \o row_line(csv_row[j])

C9_Witness ==
    \E i, j \in Invocations :
        /\ Raced(i, j)
        /\ ~initial.exists
        /\ Len(calls) = 2
        /\ csv_row[i] # csv_row[j]
        /\ ~result[i].raised /\ ~result[j].raised
        /\ object = header_line \o row_line(csv_row[j])

====
